---- MODULE Spec2Model ----
(***************************************************************************)
(* Privilege separation for dhcpcd, Linux driver (src/privsep-linux.c).    *)
(*                                                                         *)
(* Two state machines share this module:                                   *)
(*   Spec        the unprivileged worker, the privileged relay and the     *)
(*               channel between them, with the seccomp sandbox state of   *)
(*               the worker;                                               *)
(*   SpecFilter  the kernel's evaluation of the BPF program                *)
(*               ps_seccomp_filter on one trapped syscall, one             *)
(*               instruction per step.                                     *)
(*                                                                         *)
(* The build modelled is x86_64, little endian.  A 32-bit word is kept as  *)
(* two 16-bit limbs <<hi16, lo16>>, a 64-bit value as <<hi32, lo32>> of    *)
(* two such words, so that every width of the C code is exact.             *)
(***************************************************************************)
EXTENDS Integers, Sequences, FiniteSets, TLC

VARIABLES
    \* ---- worker (unprivileged process) ----
    wpc,            \* "run" | "wait" (blocked in ps_root_readerror) | "dead"
    wcall,          \* the last call the worker made: [kind, protocol, msg]
    wret,           \* return value of that call
    werrno,         \* the worker's errno
    wdata,          \* reply bytes handed back to the caller of the call
    no_new_privs,   \* task flag set by prctl(PR_SET_NO_NEW_PRIVS)
    attached,       \* sequence of filter programs the kernel enforces
    prctlLog,       \* prctl calls of the last ps_seccomp_enter
    nInstall,       \* number of ps_seccomp_enter calls so far
    nReq,           \* number of requests issued so far
    workerSocks,    \* routing sockets the worker opened itself
    \* ---- channel ----
    toRelay,        \* requests in flight
    toWorker,       \* responses in flight
    \* ---- relay (privileged process) ----
    rpc,            \* "idle" | "os" | "linksocket" | "sendmsg" |
                    \* "getnetlink" | "out" | "reply"
    rpsm,           \* the request being served
    rprotocol,      \* argument protocol of ps_root_dosendnetlink
    rs,             \* local s: NoSock, or <<protocol>> of the open socket
    rbuf,           \* local buf: the reply read from the kernel
    rretval,        \* value ps_root_os returns
    rdata,          \* *rdata of ps_root_os: reply data for the response
    rerrno,         \* the relay's errno
    openSocks,      \* routing sockets the relay holds open
    klog,           \* kernel operations of the current ps_root_os call
    kerr,           \* errno set by the kernel call that failed in it, or 0
    \* ---- filter evaluation ----
    sd,             \* struct seccomp_data of the trapped syscall
    bpf_pc,         \* index of the next instruction, 0 = not running
    bpf_A,          \* accumulator
    verdict,        \* NoVerdict or the returned action word
    trace           \* indices of the instructions executed

vars == <<wpc, wcall, wret, werrno, wdata, no_new_privs, attached, prctlLog,
          nInstall, nReq, workerSocks, toRelay, toWorker, rpc, rpsm,
          rprotocol, rs, rbuf, rretval, rdata, rerrno, openSocks, klog,
          kerr, sd, bpf_pc, bpf_A, verdict, trace>>

workerVars == <<wpc, wcall, wret, werrno, wdata, no_new_privs, attached,
                prctlLog, nInstall, nReq, workerSocks>>
chanVars == <<toRelay, toWorker>>
relayVars == <<rpc, rpsm, rprotocol, rs, rbuf, rretval, rdata, rerrno,
               openSocks, klog, kerr>>
filterVars == <<sd, bpf_pc, bpf_A, verdict, trace>>

-----------------------------------------------------------------------------
(* Fixed-width values *)

W(hi, lo) == <<hi, lo>>
\* a non-negative int below 2^31 as a 32-bit word
U32(n) == W(n \div 65536, n % 65536)
\* (uint32_t)((_val) & 0xffffffff) of a C int _val
Lo32OfInt(v) == W((v \div 65536) % 65536, v % 65536)
\* (uint32_t)((uint64_t)(_val) >> 32) of a C int _val: the sign extension
Hi32OfInt(v) == IF v < 0 THEN W(65535, 65535) ELSE W(0, 0)
\* (unsigned long)x of an int x, unsigned long being 64 bits wide
ULongOfInt(x) == <<Hi32OfInt(x), Lo32OfInt(x)>>
\* faulty variant: the sign bit of the low word is dropped
IntOfULong_nosign(u) ==
    LET lo == u[2] IN (lo[1] % 32768) * 65536 + lo[2]

\* (int)u of an unsigned long u: the low 32 bits, read as two's complement
IntOfULong(u) ==
    LET lo == u[2] IN
    IF lo[1] >= 32768 THEN (lo[1] - 65536) * 65536 + lo[2]
                      ELSE lo[1] * 65536 + lo[2]

-----------------------------------------------------------------------------
(* Platform constants of the x86_64 build *)

AUDIT_ARCH_X86_64 == W(49152, 62)      \* 0xC000003E
AUDIT_ARCH_I386 == W(16384, 3)         \* 0x40000003
AUDIT_ARCH_AARCH64 == W(49152, 183)    \* 0xC00000B7
SECCOMP_AUDIT_ARCH == AUDIT_ARCH_X86_64

SECCOMP_RET_ALLOW == W(32767, 0)       \* 0x7fff0000
SECCOMP_RET_KILL == W(0, 0)
SECCOMP_FILTER_FAIL == SECCOMP_RET_KILL

SECCOMP_ARG_LO == 0
SECCOMP_ARG_HI == 4

NR_read == 0
NR_write == 1
NR_close == 3
NR_fstat == 5
NR_mmap == 9
NR_munmap == 11
NR_brk == 12
NR_rt_sigreturn == 15
NR_ioctl == 16
NR_readv == 19
NR_writev == 20
NR_getpid == 39
NR_socket == 41
NR_accept == 43
NR_sendto == 44
NR_recvfrom == 45
NR_sendmsg == 46
NR_recvmsg == 47
NR_shutdown == 48
NR_wait4 == 61
NR_uname == 63
NR_fcntl == 72
NR_gettimeofday == 96
NR_prctl == 157
\* the option of the first prctl of ps_seccomp_enter (linux/prctl.h)
PR_SET_NO_NEW_PRIVS == 38
NR_clock_gettime == 228
NR_exit_group == 231
NR_ppoll == 271

SIOCGIFFLAGS == 35091     \* 0x8913
SIOCGIFMTU == 35105       \* 0x8921
SIOCGIFHWADDR == 35111    \* 0x8927
SIOCGIFINDEX == 35123     \* 0x8933
SIOCGIFVLAN == 35202      \* 0x8982

EINVAL == 22
ENOSYS == 38
ENOTSUP == 95

\* offsetof(struct seccomp_data, ...)
OffNr == 0
OffArch == 4
OffArgs(i) == 16 + 8 * i

-----------------------------------------------------------------------------
(* The filter program *)

BPF_LD_ABS(k) == [code |-> "LD", jt |-> 0, jf |-> 0, k |-> k]
BPF_JEQ(k, jt, jf) == [code |-> "JEQ", jt |-> jt, jf |-> jf, k |-> k]
BPF_RET(k) == [code |-> "RET", jt |-> 0, jf |-> 0, k |-> k]

SECCOMP_ALLOW(nr) ==
    << BPF_JEQ(U32(nr), 0, 1),
       BPF_RET(SECCOMP_RET_ALLOW) >>

\* faulty variant: only the low half of the argument is compared
SECCOMP_ALLOW_ARG_lo_only(nr, arg, val) ==
    << BPF_JEQ(U32(nr), 0, 4),
       BPF_LD_ABS(OffArgs(arg) + SECCOMP_ARG_LO),
       BPF_JEQ(Lo32OfInt(val), 0, 1),
       BPF_RET(SECCOMP_RET_ALLOW),
       BPF_LD_ABS(OffNr) >>

\* faulty variant: a failed argument comparison goes on without reloading the
\* syscall number
SECCOMP_ALLOW_ARG_no_reload(nr, arg, val) ==
    << BPF_JEQ(U32(nr), 0, 5),
       BPF_LD_ABS(OffArgs(arg) + SECCOMP_ARG_LO),
       BPF_JEQ(Lo32OfInt(val), 0, 3),
       BPF_LD_ABS(OffArgs(arg) + SECCOMP_ARG_HI),
       BPF_JEQ(Hi32OfInt(val), 0, 1),
       BPF_RET(SECCOMP_RET_ALLOW) >>

\* faulty variant: the last instruction reloads the arch, not the number
SECCOMP_ALLOW_ARG_reload_arch(nr, arg, val) ==
    << BPF_JEQ(U32(nr), 0, 6),
       BPF_LD_ABS(OffArgs(arg) + SECCOMP_ARG_LO),
       BPF_JEQ(Lo32OfInt(val), 0, 3),
       BPF_LD_ABS(OffArgs(arg) + SECCOMP_ARG_HI),
       BPF_JEQ(Hi32OfInt(val), 0, 1),
       BPF_RET(SECCOMP_RET_ALLOW),
       BPF_LD_ABS(OffArch) >>

\* faulty variant: the argument before the named one is compared
SECCOMP_ALLOW_ARG_prev_arg(nr, arg, val) ==
    << BPF_JEQ(U32(nr), 0, 6),
       BPF_LD_ABS(OffArgs(arg - 1) + SECCOMP_ARG_LO),
       BPF_JEQ(Lo32OfInt(val), 0, 3),
       BPF_LD_ABS(OffArgs(arg - 1) + SECCOMP_ARG_HI),
       BPF_JEQ(Hi32OfInt(val), 0, 1),
       BPF_RET(SECCOMP_RET_ALLOW),
       BPF_LD_ABS(OffNr) >>

SECCOMP_ALLOW_ARG(nr, arg, val) ==
    << BPF_JEQ(U32(nr), 0, 6),
       BPF_LD_ABS(OffArgs(arg) + SECCOMP_ARG_LO),
       BPF_JEQ(Lo32OfInt(val), 0, 3),
       BPF_LD_ABS(OffArgs(arg) + SECCOMP_ARG_HI),
       BPF_JEQ(Hi32OfInt(val), 0, 1),
       BPF_RET(SECCOMP_RET_ALLOW),
       BPF_LD_ABS(OffNr) >>

\* faulty variant: the jump offsets of the arch comparison are exchanged
seccomp_arch_check_swapped ==
    << BPF_LD_ABS(OffArch),
       BPF_JEQ(SECCOMP_AUDIT_ARCH, 0, 1),
       BPF_RET(SECCOMP_FILTER_FAIL) >>

\* lines 194-198: check syscall arch
seccomp_arch_check ==
    << BPF_LD_ABS(OffArch),
       BPF_JEQ(SECCOMP_AUDIT_ARCH, 1, 0),
       BPF_RET(SECCOMP_FILTER_FAIL) >>

\* lines 199-201: load the syscall number
seccomp_load_nr == << BPF_LD_ABS(OffNr) >>

\* lines 202-291: the allow list of the x86_64 build (__NR_clock_gettime64
\* and __NR_ppoll_time64 are not defined there, and __ILP32__ is not set)
seccomp_allow_syscalls ==
       SECCOMP_ALLOW(NR_accept)
    \o SECCOMP_ALLOW(NR_brk)
    \o SECCOMP_ALLOW(NR_clock_gettime)
    \o SECCOMP_ALLOW(NR_close)
    \o SECCOMP_ALLOW(NR_exit_group)
    \o SECCOMP_ALLOW(NR_fcntl)
    \o SECCOMP_ALLOW(NR_fstat)
    \o SECCOMP_ALLOW(NR_gettimeofday)
    \o SECCOMP_ALLOW(NR_getpid)
    \o SECCOMP_ALLOW_ARG(NR_ioctl, 1, SIOCGIFFLAGS)
    \o SECCOMP_ALLOW_ARG(NR_ioctl, 1, SIOCGIFHWADDR)
    \o SECCOMP_ALLOW_ARG(NR_ioctl, 1, SIOCGIFINDEX)
    \o SECCOMP_ALLOW_ARG(NR_ioctl, 1, SIOCGIFMTU)
    \o SECCOMP_ALLOW_ARG(NR_ioctl, 1, SIOCGIFVLAN)
    \o SECCOMP_ALLOW(NR_mmap)
    \o SECCOMP_ALLOW(NR_munmap)
    \o SECCOMP_ALLOW(NR_ppoll)
    \o SECCOMP_ALLOW(NR_read)
    \o SECCOMP_ALLOW(NR_readv)
    \o SECCOMP_ALLOW(NR_recvfrom)
    \o SECCOMP_ALLOW(NR_recvmsg)
    \o SECCOMP_ALLOW(NR_rt_sigreturn)
    \o SECCOMP_ALLOW(NR_sendmsg)
    \o SECCOMP_ALLOW(NR_sendto)
    \o SECCOMP_ALLOW(NR_shutdown)
    \o SECCOMP_ALLOW(NR_wait4)
    \o SECCOMP_ALLOW(NR_write)
    \o SECCOMP_ALLOW(NR_writev)
    \o SECCOMP_ALLOW(NR_uname)

\* faulty variant: the table has no final deny
seccomp_deny_missing == << >>

\* lines 293-294: deny everything else
seccomp_deny == << BPF_RET(SECCOMP_FILTER_FAIL) >>

\* faulty variant: prctl is put on the allow list
ps_seccomp_filter_prctl ==
    seccomp_arch_check \o seccomp_load_nr \o SECCOMP_ALLOW(NR_prctl)
    \o seccomp_allow_syscalls \o seccomp_deny

\* faulty variant: socket is put on the allow list
ps_seccomp_filter_socket ==
    seccomp_arch_check \o seccomp_load_nr \o SECCOMP_ALLOW(NR_socket)
    \o seccomp_allow_syscalls \o seccomp_deny

ps_seccomp_filter ==
    seccomp_arch_check \o seccomp_load_nr \o seccomp_allow_syscalls
    \o seccomp_deny

\* struct sock_fprog: .len and .filter
ps_seccomp_prog == [len |-> Len(ps_seccomp_filter), filter |-> ps_seccomp_filter]

-----------------------------------------------------------------------------
(* The kernel's evaluation of a classic BPF program on seccomp_data *)

NoVerdict == <<>>

\* the 32-bit word of struct seccomp_data at byte offset k (little endian)
LoadWord(d, k) ==
    IF k = OffNr THEN d.nr
    ELSE IF k = OffArch THEN d.arch
    ELSE IF k = 8 THEN d.instruction_pointer[2]
    ELSE IF k = 12 THEN d.instruction_pointer[1]
    ELSE LET i == (k - 16) \div 8
             h == (k - 16) % 8
         IN  IF h = 0 THEN d.args[i + 1][2] ELSE d.args[i + 1][1]

\* one instruction: the machine state after executing prog[pc]
BpfExec(prog, pc, A, d) ==
    LET insn == prog[pc] IN
    IF insn.code = "LD"
    THEN [pc |-> pc + 1, A |-> LoadWord(d, insn.k), ret |-> NoVerdict]
    ELSE IF insn.code = "JEQ"
    THEN [pc |-> pc + 1 + (IF A = insn.k THEN insn.jt ELSE insn.jf),
          A |-> A, ret |-> NoVerdict]
    ELSE [pc |-> 0, A |-> A, ret |-> insn.k]

RECURSIVE BpfRun(_, _, _, _)
BpfRun(prog, pc, A, d) ==
    LET n == BpfExec(prog, pc, A, d) IN
    IF n.ret # NoVerdict THEN n.ret ELSE BpfRun(prog, n.pc, n.A, d)

\* the action the kernel takes for a syscall of a task with filters fs
\* attached: every filter runs, the most restrictive result wins
RECURSIVE seccomp_run_filters(_, _)
seccomp_run_filters(fs, d) ==
    IF fs = <<>> THEN SECCOMP_RET_ALLOW
    ELSE LET r == BpfRun(Head(fs).filter, 1, U32(0), d)
             t == seccomp_run_filters(Tail(fs), d)
         IN  IF r = SECCOMP_RET_ALLOW THEN t ELSE r

-----------------------------------------------------------------------------
(* Bounds and input sets *)

MaxInstall == 2          \* calls of ps_seccomp_enter explored
MaxRequests == 2         \* requests the worker issues
MaxWorkerSocks == 1      \* routing sockets the worker may get for itself

PS_ROUTE == "PS_ROUTE"
Commands == {PS_ROUTE, "PS_IOCTL", "PS_SCRIPT"}

\* protocol selectors: NETLINK_ROUTE, NETLINK_GENERIC and an invalid one
Protocols == {0, 16, -1}
Messages == {<<7>>, <<8, 9>>}
Replies == {<<1>>, <<2, 3>>}

\* outcome of a call into the kernel or the transport: 0 or the errno
PrctlOutcomes == {0, EINVAL, 13}       \* 13 = EACCES
KernelOutcomes == {0, 105, 1}          \* 105 = ENOBUFS, 1 = EPERM
ChannelOutcomes == {0, 32}             \* 32 = EPIPE

NoSock == <<>>
NULL == <<>>

Zero64 == <<W(0, 0), W(0, 0)>>
U64(n) == <<W(0, 0), U32(n)>>

\* struct seccomp_data of a native syscall nr(a0, a1, 0, 0, 0, 0)
SyscallData(arch, nr, ip, a0, a1) ==
    [nr |-> nr, arch |-> arch, instruction_pointer |-> ip,
     args |-> <<a0, a1, Zero64, Zero64, Zero64, Zero64>>]
\* user-space addresses: where a syscall instruction sits, or the object
\* a pointer argument points to
UserAddrs == { <<W(0, 32522), W(7623, 46157)>>,       \* 0x00007f0a1dc7b44d
               <<W(0, 21845), W(21845, 8192)>> }      \* 0x0000555555552000
\* what an argument register that the call does not set may hold
LeftoverRegs == { Zero64, <<W(0, 32522), W(7606, 63296)>> }
NativeSyscall(nr, ip, a0, a1) ==
    SyscallData(SECCOMP_AUDIT_ARCH, U32(nr), ip, a0, a1)
\* line 306: prctl(PR_SET_NO_NEW_PRIVS, 1, 0, 0, 0), as the kernel may see
\* it: the call is made at some address and sets five argument registers,
\* the sixth holds what was left in it
SetNoNewPrivsCalls ==
    { [NativeSyscall(NR_prctl, ip, U64(PR_SET_NO_NEW_PRIVS), U64(1))
          EXCEPT !.args[6] = r9] :
        ip \in UserAddrs, r9 \in LeftoverRegs }
\* sendmsg(fd, &msg, 0) of ps_sendmsg on the channel's descriptor, as the
\* kernel may see it: three argument registers are set, the others hold
\* what was left in them
SendmsgCalls ==
    { [NativeSyscall(NR_sendmsg, <<W(0, 32522), W(7623, 46157)>>, U64(3),
                     <<W(0, 21845), W(21845, 8192)>>)
          EXCEPT !.args[4] = r, !.args[5] = r, !.args[6] = r] :
        r \in LeftoverRegs }
\* what the worker may try once it is sandboxed
WorkerSyscalls ==
    LET ip == <<W(0, 32522), W(7623, 46157)>> IN
    { NativeSyscall(NR_socket, ip, U64(16), U64(3)),    \* AF_NETLINK, SOCK_RAW
      NativeSyscall(NR_ioctl, ip, U64(3), U64(SIOCGIFFLAGS)),
      NativeSyscall(NR_ioctl, ip, U64(3), U64(35092)) }      \* SIOCSIFFLAGS

NoData == SyscallData(W(0, 0), W(0, 0), Zero64, Zero64, Zero64)
NoCall == [kind |-> "none", protocol |-> 0, msg |-> <<>>]
NoPsm == [ps_cmd |-> "none", ps_flags |-> ULongOfInt(0), msg |-> <<>>]

Init ==
    /\ wpc = "run"
    /\ wcall = NoCall
    /\ wret = 0
    /\ werrno = 0
    /\ wdata = <<>>
    /\ no_new_privs = FALSE
    /\ attached = <<>>
    /\ prctlLog = <<>>
    /\ nInstall = 0
    /\ nReq = 0
    /\ workerSocks = 0
    /\ toRelay = <<>>
    /\ toWorker = <<>>
    /\ rpc = "idle"
    /\ rpsm = NoPsm
    /\ rprotocol = 0
    /\ rs = NoSock
    /\ rbuf = <<>>
    /\ rretval = 0
    /\ rdata = NULL
    /\ rerrno = 0
    /\ openSocks = 0
    /\ klog = <<>>
    /\ kerr = 0
    /\ sd = NoData
    /\ bpf_pc = 0
    /\ bpf_A = U32(0)
    /\ verdict = NoVerdict
    /\ trace = <<>>

-----------------------------------------------------------------------------
(* Worker: the sandbox *)

\* a syscall of the worker passes the attached filters
Permitted(d) == seccomp_run_filters(attached, d) = SECCOMP_RET_ALLOW

\* the kernel kills the worker on the trapped syscall d
Killed(d) ==
    /\ wpc' = "dead"
    /\ sd' = d
    /\ verdict' = seccomp_run_filters(attached, d)
    /\ UNCHANGED <<bpf_pc, bpf_A, trace>>

\* faulty variant: "if (errno = EINVAL)", every error becomes ENOSYS
EnterErrno_assign(e) == ENOSYS

\* lines 309-310: EINVAL is reported as ENOSYS
EnterErrno(e) == IF e = EINVAL THEN ENOSYS ELSE e

\* faulty variant: "|" for "||", the second prctl is made whatever the first returned
seccomp_enter_both(r1, r2) ==
    [ret |-> IF r1 # 0 \/ r2 # 0 THEN -1 ELSE 0,
     errno |-> IF r2 # 0 THEN EnterErrno(r2)
               ELSE IF r1 # 0 THEN EnterErrno(r1) ELSE werrno,
     nnp |-> IF r1 = 0 THEN TRUE ELSE no_new_privs,
     attached |-> IF r2 = 0 THEN Append(attached, ps_seccomp_prog)
                  ELSE attached,
     log |-> << [option |-> "PR_SET_NO_NEW_PRIVS", res |-> r1],
                [option |-> "PR_SET_SECCOMP", res |-> r2] >>]

\* ps_seccomp_enter with r1, r2 the outcomes of the two prctl calls; the
\* second call is made only when the first did not return -1
seccomp_enter(r1, r2) ==
    IF r1 # 0
    THEN [ret |-> -1, errno |-> EnterErrno(r1), nnp |-> no_new_privs,
          attached |-> attached,
          log |-> << [option |-> "PR_SET_NO_NEW_PRIVS", res |-> r1] >>]
    ELSE IF r2 # 0
    THEN [ret |-> -1, errno |-> EnterErrno(r2), nnp |-> TRUE,
          attached |-> attached,
          log |-> << [option |-> "PR_SET_NO_NEW_PRIVS", res |-> 0],
                     [option |-> "PR_SET_SECCOMP", res |-> r2] >>]
    ELSE [ret |-> 0, errno |-> werrno, nnp |-> TRUE,
          attached |-> Append(attached, ps_seccomp_prog),
          log |-> << [option |-> "PR_SET_NO_NEW_PRIVS", res |-> 0],
                     [option |-> "PR_SET_SECCOMP", res |-> 0] >>]

ps_seccomp_enter(r1, r2) ==
    /\ wpc = "run"
    /\ nInstall < MaxInstall
    /\ nInstall' = nInstall + 1
    /\ wcall' = [kind |-> "enter", protocol |-> 0, msg |-> <<>>]
    /\ \E c \in SetNoNewPrivsCalls :
          IF ~Permitted(c)
          THEN /\ Killed(c)
               /\ UNCHANGED <<wret, werrno, no_new_privs, attached,
                              prctlLog>>
          ELSE LET r == seccomp_enter(r1, r2) IN
               /\ wret' = r.ret
               /\ werrno' = r.errno
               /\ no_new_privs' = r.nnp
               /\ attached' = r.attached
               /\ prctlLog' = r.log
               /\ UNCHANGED <<wpc, filterVars>>
    /\ UNCHANGED <<wdata, nReq, workerSocks, chanVars, relayVars>>

\* any other syscall the sandboxed worker issues: allowed or killed
WorkerSyscall(d) ==
    /\ wpc = "run"
    /\ attached # <<>>
    /\ d.nr = U32(NR_socket) => workerSocks < MaxWorkerSocks
    /\ IF Permitted(d)
       THEN /\ sd' = d
            /\ verdict' = SECCOMP_RET_ALLOW
            /\ workerSocks' = IF d.nr = U32(NR_socket) THEN workerSocks + 1
                              ELSE workerSocks
            /\ UNCHANGED <<wpc, bpf_pc, bpf_A, trace>>
       ELSE /\ Killed(d)
            /\ UNCHANGED workerSocks
    /\ UNCHANGED <<wcall, wret, werrno, wdata, no_new_privs, attached,
                   prctlLog, nInstall, nReq, chanVars, relayVars>>

-----------------------------------------------------------------------------
(* Worker: requests to the relay *)

\* ps_sendmsg: one request envelope onto the channel, or -1 with errno e
ps_sendmsg(cmd, flags, msg, e) ==
    /\ nReq' = nReq + 1
    /\ \E c \in SendmsgCalls :
          IF ~Permitted(c)
          THEN /\ Killed(c)
               /\ UNCHANGED <<wret, werrno, toRelay>>
          ELSE IF e # 0
          THEN /\ wret' = -1
               /\ werrno' = e
               /\ UNCHANGED <<wpc, toRelay, filterVars>>
          ELSE /\ toRelay' = Append(toRelay,
                   [ps_cmd |-> cmd, ps_flags |-> flags, msg |-> msg])
               /\ wpc' = "wait"
               /\ UNCHANGED <<wret, werrno, filterVars>>

\* faulty variant: the selector is not put into the flags of the envelope
ps_root_sendnetlink_noflags(protocol, msg, e) ==
    /\ wpc = "run"
    /\ nReq < MaxRequests
    /\ wcall' = [kind |-> "route", protocol |-> protocol, msg |-> msg]
    /\ ps_sendmsg(PS_ROUTE, ULongOfInt(0), msg, e)
    /\ wdata' = <<>>
    /\ UNCHANGED <<no_new_privs, attached, prctlLog, nInstall, workerSocks,
                   toWorker, relayVars>>

\* faulty variant: returns after the send without waiting for the response
ps_root_sendnetlink_nowait(protocol, msg, e) ==
    /\ wpc = "run"
    /\ nReq < MaxRequests
    /\ wcall' = [kind |-> "route", protocol |-> protocol, msg |-> msg]
    /\ nReq' = nReq + 1
    /\ \E c \in SendmsgCalls :
          IF ~Permitted(c)
          THEN /\ Killed(c)
               /\ UNCHANGED <<wret, werrno, toRelay>>
          ELSE IF e # 0
          THEN /\ wret' = -1
               /\ werrno' = e
               /\ UNCHANGED <<wpc, toRelay, filterVars>>
          ELSE /\ toRelay' = Append(toRelay,
                   [ps_cmd |-> PS_ROUTE, ps_flags |-> ULongOfInt(protocol),
                    msg |-> msg])
               /\ wret' = 0
               /\ UNCHANGED <<wpc, werrno, filterVars>>
    /\ wdata' = <<>>
    /\ UNCHANGED <<no_new_privs, attached, prctlLog, nInstall, workerSocks,
                   toWorker, relayVars>>

\* faulty variant: the result of ps_sendmsg is ignored and the response is
\* awaited even when nothing was sent
ps_root_sendnetlink_nocheck(protocol, msg, e) ==
    /\ wpc = "run"
    /\ nReq < MaxRequests
    /\ wcall' = [kind |-> "route", protocol |-> protocol, msg |-> msg]
    /\ nReq' = nReq + 1
    /\ \E c \in SendmsgCalls :
          IF ~Permitted(c)
          THEN /\ Killed(c)
               /\ UNCHANGED <<wret, werrno, toRelay>>
          ELSE IF e # 0
          THEN /\ wret' = -1
               /\ werrno' = e
               /\ wpc' = "wait"
               /\ UNCHANGED <<toRelay, filterVars>>
          ELSE /\ toRelay' = Append(toRelay,
                   [ps_cmd |-> PS_ROUTE, ps_flags |-> ULongOfInt(protocol),
                    msg |-> msg])
               /\ wpc' = "wait"
               /\ UNCHANGED <<wret, werrno, filterVars>>
    /\ wdata' = <<>>
    /\ UNCHANGED <<no_new_privs, attached, prctlLog, nInstall, workerSocks,
                   toWorker, relayVars>>

\* ps_root_sendnetlink up to the return of ps_sendmsg
ps_root_sendnetlink(protocol, msg, e) ==
    /\ wpc = "run"
    /\ nReq < MaxRequests
    /\ wcall' = [kind |-> "route", protocol |-> protocol, msg |-> msg]
    /\ ps_sendmsg(PS_ROUTE, ULongOfInt(protocol), msg, e)
    /\ wdata' = <<>>
    /\ UNCHANGED <<no_new_privs, attached, prctlLog, nInstall, workerSocks,
                   toWorker, relayVars>>

\* a request of the worker with a command other than PS_ROUTE
ps_root_sendcmd(cmd, msg, e) ==
    /\ wpc = "run"
    /\ nReq < MaxRequests
    /\ cmd # PS_ROUTE
    /\ wcall' = [kind |-> cmd, protocol |-> 0, msg |-> msg]
    /\ ps_sendmsg(cmd, ULongOfInt(0), msg, e)
    /\ wdata' = <<>>
    /\ UNCHANGED <<no_new_privs, attached, prctlLog, nInstall, workerSocks,
                   toWorker, relayVars>>

Take(s, n) == SubSeq(s, 1, IF n < Len(s) THEN n ELSE Len(s))

\* ps_root_readerror(ctx, data, len): the blocked worker takes the response;
\* at most len bytes of its data go to the caller's buffer
ps_root_readerror(data, len) ==
    /\ wpc = "wait"
    /\ toWorker # <<>>
    /\ LET psr == Head(toWorker) IN
       /\ wret' = psr.psr_result
       /\ werrno' = psr.psr_errno
       /\ wdata' = IF data = NULL /\ len = 0 THEN <<>>
                   ELSE Take(psr.psr_data, len)
    /\ toWorker' = Tail(toWorker)
    /\ wpc' = "run"
    /\ UNCHANGED <<wcall, no_new_privs, attached, prctlLog, nInstall, nReq,
                   workerSocks, toRelay, relayVars, filterVars>>

\* line 97 of ps_root_sendnetlink
ps_root_sendnetlink_read == ps_root_readerror(NULL, 0)

-----------------------------------------------------------------------------
(* Relay *)

KOp(op, arg, ok) == [op |-> op, arg |-> arg, ok |-> ok]

\* the relay takes the next request off the channel and calls ps_root_os
ps_root_recvmsg ==
    /\ rpc = "idle"
    /\ toRelay # <<>>
    /\ rpsm' = Head(toRelay)
    /\ toRelay' = Tail(toRelay)
    /\ rdata' = NULL
    /\ klog' = <<>>
    /\ kerr' = 0
    /\ rpc' = "os"
    /\ UNCHANGED <<workerVars, toWorker, rprotocol, rs, rbuf, rretval, rerrno,
                   openSocks, filterVars>>

\* faulty variant: the default arm returns -1 without setting errno
ps_root_os_noerrno ==
    /\ rpc = "os"
    /\ IF rpsm.ps_cmd = PS_ROUTE
       THEN /\ rprotocol' = IntOfULong(rpsm.ps_flags)
            /\ rpc' = "linksocket"
            /\ UNCHANGED <<rerrno, rretval>>
       ELSE /\ rretval' = -1
            /\ rpc' = "reply"
            /\ UNCHANGED <<rprotocol, rerrno>>
    /\ UNCHANGED <<workerVars, chanVars, rpsm, rs, rbuf, rdata, openSocks,
                   klog, kerr, filterVars>>

\* faulty variant: the default arm reports EINVAL
ps_root_os_einval ==
    /\ rpc = "os"
    /\ IF rpsm.ps_cmd = PS_ROUTE
       THEN /\ rprotocol' = IntOfULong(rpsm.ps_flags)
            /\ rpc' = "linksocket"
            /\ UNCHANGED <<rerrno, rretval>>
       ELSE /\ rerrno' = EINVAL
            /\ rretval' = -1
            /\ rpc' = "reply"
            /\ UNCHANGED rprotocol
    /\ UNCHANGED <<workerVars, chanVars, rpsm, rs, rbuf, rdata, openSocks,
                   klog, kerr, filterVars>>

\* ps_root_os: the switch on psm->ps_cmd
ps_root_os ==
    /\ rpc = "os"
    /\ IF rpsm.ps_cmd = PS_ROUTE
       THEN /\ rprotocol' = IntOfULong(rpsm.ps_flags)
            /\ rpc' = "linksocket"
            /\ UNCHANGED <<rerrno, rretval>>
       ELSE /\ rerrno' = ENOTSUP
            /\ rretval' = -1
            /\ rpc' = "reply"
            /\ UNCHANGED rprotocol
    /\ UNCHANGED <<workerVars, chanVars, rpsm, rs, rbuf, rdata, openSocks,
                   klog, kerr, filterVars>>

\* faulty variant: a failed open does not return and the send is attempted
dosendnetlink_linksocket_noreturn(e) ==
    /\ rpc = "linksocket"
    /\ IF e # 0
       THEN /\ rerrno' = e
            /\ rretval' = -1
            /\ klog' = Append(klog, KOp("socket", <<rprotocol>>, FALSE))
            /\ kerr' = e
            /\ UNCHANGED <<rs, openSocks>>
       ELSE /\ rs' = <<rprotocol>>
            /\ openSocks' = openSocks + 1
            /\ klog' = Append(klog, KOp("socket", <<rprotocol>>, TRUE))
            /\ UNCHANGED <<rerrno, rretval, kerr>>
    /\ rpc' = "sendmsg"
    /\ UNCHANGED <<workerVars, chanVars, rpsm, rprotocol, rbuf, rdata,
                   filterVars>>

\* ps_root_dosendnetlink, lines 62-63: s = if_linksocket(&snl, protocol, 0)
dosendnetlink_linksocket(e) ==
    /\ rpc = "linksocket"
    /\ IF e # 0
       THEN /\ rerrno' = e
            /\ rretval' = -1
            /\ rpc' = "reply"
            /\ klog' = Append(klog, KOp("socket", <<rprotocol>>, FALSE))
            /\ kerr' = e
            /\ UNCHANGED <<rs, openSocks>>
       ELSE /\ rs' = <<rprotocol>>
            /\ openSocks' = openSocks + 1
            /\ rpc' = "sendmsg"
            /\ klog' = Append(klog, KOp("socket", <<rprotocol>>, TRUE))
            /\ UNCHANGED <<rerrno, rretval, kerr>>
    /\ UNCHANGED <<workerVars, chanVars, rpsm, rprotocol, rbuf, rdata,
                   filterVars>>

\* faulty variant: a failed send returns at once instead of going to out
dosendnetlink_sendmsg_noclose(e) ==
    /\ rpc = "sendmsg"
    /\ IF e # 0
       THEN /\ rerrno' = e
            /\ rretval' = -1
            /\ rpc' = "reply"
            /\ klog' = Append(klog, KOp("sendmsg", rs \o rpsm.msg, FALSE))
            /\ kerr' = e
       ELSE /\ rpc' = "getnetlink"
            /\ klog' = Append(klog, KOp("sendmsg", rs \o rpsm.msg, TRUE))
            /\ UNCHANGED <<rerrno, rretval, kerr>>
    /\ UNCHANGED <<workerVars, chanVars, rpsm, rprotocol, rs, rbuf, rdata,
                   openSocks, filterVars>>

\* faulty variant: a failed send sets retval but goes on to the receive
dosendnetlink_sendmsg_nogoto(e) ==
    /\ rpc = "sendmsg"
    /\ IF e # 0
       THEN /\ rerrno' = e
            /\ rretval' = -1
            /\ klog' = Append(klog, KOp("sendmsg", rs \o rpsm.msg, FALSE))
            /\ kerr' = e
       ELSE /\ klog' = Append(klog, KOp("sendmsg", rs \o rpsm.msg, TRUE))
            /\ UNCHANGED <<rerrno, rretval, kerr>>
    /\ rpc' = "getnetlink"
    /\ UNCHANGED <<workerVars, chanVars, rpsm, rprotocol, rs, rbuf, rdata,
                   openSocks, filterVars>>

\* lines 65-68: sendmsg(s, msg, 0)
dosendnetlink_sendmsg(e) ==
    /\ rpc = "sendmsg"
    /\ IF e # 0
       THEN /\ rerrno' = e
            /\ rretval' = -1
            /\ rpc' = "out"
            /\ klog' = Append(klog, KOp("sendmsg", rs \o rpsm.msg, FALSE))
            /\ kerr' = e
       ELSE /\ rpc' = "getnetlink"
            /\ klog' = Append(klog, KOp("sendmsg", rs \o rpsm.msg, TRUE))
            /\ UNCHANGED <<rerrno, rretval, kerr>>
    /\ UNCHANGED <<workerVars, chanVars, rpsm, rprotocol, rs, rbuf, rdata,
                   openSocks, filterVars>>

\* if_getnetlink(NULL, &riov, s, 0, NULL, NULL): the kernel's reply R is read
\* into riov and its byte count returned, or -1 with errno e
if_getnetlink(R, e) ==
    IF e # 0 THEN [ret |-> -1, errno |-> e, buf |-> rbuf]
             ELSE [ret |-> Len(R), errno |-> rerrno, buf |-> R]

\* line 70: retval = if_getnetlink(...)
dosendnetlink_getnetlink(R, e) ==
    /\ rpc = "getnetlink"
    /\ LET g == if_getnetlink(R, e) IN
       /\ rretval' = g.ret
       /\ rerrno' = g.errno
       /\ rbuf' = g.buf
       /\ klog' = Append(klog, KOp("recvmsg", rs \o g.buf, e = 0))
       /\ kerr' = IF e # 0 THEN e ELSE kerr
    /\ rpc' = "out"
    /\ UNCHANGED <<workerVars, chanVars, rpsm, rprotocol, rs, rdata,
                   openSocks, filterVars>>

\* lines 71-73: out: close(s); return retval.  close of a netlink socket
\* releases the descriptor and leaves errno alone
dosendnetlink_out ==
    /\ rpc = "out"
    /\ klog' = Append(klog, KOp("close", rs, TRUE))
    /\ openSocks' = openSocks - 1
    /\ rs' = NoSock
    /\ rpc' = "reply"
    /\ UNCHANGED <<workerVars, chanVars, rpsm, rprotocol, rbuf, rretval,
                   rdata, rerrno, kerr, filterVars>>

\* the caller of ps_root_os writes the response: result, errno, data
ps_root_writeerror ==
    /\ rpc = "reply"
    /\ toWorker' = Append(toWorker,
          [psr_result |-> rretval, psr_errno |-> rerrno, psr_data |-> rdata])
    /\ rpc' = "idle"
    /\ UNCHANGED <<workerVars, toRelay, rpsm, rprotocol, rs, rbuf, rretval,
                   rdata, rerrno, openSocks, klog, kerr, filterVars>>

-----------------------------------------------------------------------------
(* The system *)

Next ==
    \/ \E r1 \in PrctlOutcomes, r2 \in PrctlOutcomes : ps_seccomp_enter(r1, r2)
    \/ \E d \in WorkerSyscalls : WorkerSyscall(d)
    \/ \E p \in Protocols, m \in Messages, e \in ChannelOutcomes :
          ps_root_sendnetlink(p, m, e)
    \/ \E c \in Commands, m \in Messages, e \in ChannelOutcomes :
          ps_root_sendcmd(c, m, e)
    \/ ps_root_sendnetlink_read
    \/ ps_root_recvmsg
    \/ ps_root_os
    \/ \E e \in KernelOutcomes : dosendnetlink_linksocket(e)
    \/ \E e \in KernelOutcomes : dosendnetlink_sendmsg(e)
    \/ \E R \in Replies, e \in KernelOutcomes : dosendnetlink_getnetlink(R, e)
    \/ dosendnetlink_out
    \/ ps_root_writeerror

Spec == Init /\ [][Next]_vars

-----------------------------------------------------------------------------
(* Filter evaluation, one instruction per step *)

Archs == {AUDIT_ARCH_X86_64, AUDIT_ARCH_I386, AUDIT_ARCH_AARCH64}

\* syscall numbers tried: the whole table, and numbers outside it
TriedNrs ==
    { U32(n) : n \in { NR_accept, NR_brk, NR_clock_gettime, NR_close,
        NR_exit_group, NR_fcntl, NR_fstat, NR_gettimeofday, NR_getpid,
        NR_ioctl, NR_mmap, NR_munmap, NR_ppoll, NR_read, NR_readv,
        NR_recvfrom, NR_recvmsg, NR_rt_sigreturn, NR_sendmsg, NR_sendto,
        NR_shutdown, NR_wait4, NR_write, NR_writev, NR_uname,
        NR_socket, NR_prctl, 2, 59 } }     \* 2 = open, 59 = execve
    \cup { W(16384, NR_clock_gettime),     \* x32: __X32_SYSCALL_BIT set
           W(65535, 65535),                \* -1
           W(1, NR_ioctl) }                \* ioctl's number in the low half

\* values tried for the second syscall argument, args[1]
TriedArg1 ==
    { U64(n) : n \in { SIOCGIFFLAGS, SIOCGIFHWADDR, SIOCGIFINDEX, SIOCGIFMTU,
                       SIOCGIFVLAN, 35092, 0 } }    \* 35092 = SIOCSIFFLAGS
    \cup { <<W(0, 1), U32(SIOCGIFFLAGS)>>,      \* high half differs
           <<W(0, 1), U32(SIOCGIFVLAN)>>,
           <<U32(SIOCGIFFLAGS), W(0, 0)>>,      \* halves swapped
           <<W(0, 0), W(1, SIOCGIFINDEX)>> }    \* bit 16 set
\* values tried for the first syscall argument, args[0]
TriedArg0 == { U64(3), U64(SIOCGIFFLAGS) }
TriedIp == UserAddrs

FilterInputs ==
    { SyscallData(a, n, ip, a0, a1) :
        a \in Archs, n \in TriedNrs, ip \in TriedIp,
        a0 \in TriedArg0, a1 \in TriedArg1 }

InitFilter ==
    /\ wpc = "run"
    /\ wcall = [kind |-> "enter", protocol |-> 0, msg |-> <<>>]
    /\ wret = 0
    /\ werrno = 0
    /\ wdata = <<>>
    /\ no_new_privs = TRUE
    /\ attached = << ps_seccomp_prog >>
    /\ prctlLog = << [option |-> "PR_SET_NO_NEW_PRIVS", res |-> 0],
                     [option |-> "PR_SET_SECCOMP", res |-> 0] >>
    /\ nInstall = 1
    /\ nReq = 0
    /\ workerSocks = 0
    /\ toRelay = <<>>
    /\ toWorker = <<>>
    /\ rpc = "idle"
    /\ rpsm = NoPsm
    /\ rprotocol = 0
    /\ rs = NoSock
    /\ rbuf = <<>>
    /\ rretval = 0
    /\ rdata = NULL
    /\ rerrno = 0
    /\ openSocks = 0
    /\ klog = <<>>
    /\ kerr = 0
    /\ sd \in FilterInputs
    /\ bpf_pc = 1
    /\ bpf_A = U32(0)
    /\ verdict = NoVerdict
    /\ trace = <<>>

Running == bpf_pc \in 1..attached[1].len

BpfStep ==
    LET n == BpfExec(attached[1].filter, bpf_pc, bpf_A, sd) IN
    /\ bpf_pc' = n.pc
    /\ bpf_A' = n.A
    /\ verdict' = n.ret
    /\ trace' = Append(trace, bpf_pc)
    /\ wpc' = IF n.ret \notin {NoVerdict, SECCOMP_RET_ALLOW} THEN "dead"
              ELSE wpc
    /\ UNCHANGED <<wcall, wret, werrno, wdata, no_new_privs, attached,
                   prctlLog, nInstall, nReq, workerSocks, chanVars,
                   relayVars, sd>>

\* BPF_LD + BPF_W + BPF_ABS
BpfLoad == Running /\ attached[1].filter[bpf_pc].code = "LD" /\ BpfStep
\* BPF_JMP + BPF_JEQ + BPF_K
BpfJump == Running /\ attached[1].filter[bpf_pc].code = "JEQ" /\ BpfStep
\* BPF_RET + BPF_K
BpfRet == Running /\ attached[1].filter[bpf_pc].code = "RET" /\ BpfStep

NextFilter == BpfLoad \/ BpfJump \/ BpfRet

SpecFilter == InitFilter /\ [][NextFilter]_vars

-----------------------------------------------------------------------------
(* Properties of the relay *)

Opened(log) ==
    Cardinality({i \in 1..Len(log) : log[i].op = "socket" /\ log[i].ok})
Closed(log) ==
    Cardinality({i \in 1..Len(log) : log[i].op = "close"})
HandleReturnedRoute == rpc = "reply" /\ rpsm.ps_cmd = PS_ROUTE

\* C1 as stated: whenever handle returns from a 'route' request it has
\* opened exactly one routing socket and closed exactly one, and holds none.
\* Refuted by the request whose if_linksocket fails: no socket is opened.
C1_ExactlyOneSocket ==
    HandleReturnedRoute =>
        Opened(klog) = 1 /\ Closed(klog) = 1 /\ openSocks = 0

\* C1 amended: whenever handle returns from a 'route' request it holds no
\* routing socket and has closed every socket it opened; it opened exactly
\* one when if_linksocket succeeded (also when the send or the receive then
\* failed) and none when if_linksocket failed.
C1_NoSocketLeak ==
    HandleReturnedRoute =>
        /\ openSocks = 0
        /\ rs = NoSock
        /\ Opened(klog) = Closed(klog)
        /\ Opened(klog) = (IF klog[1].ok THEN 1 ELSE 0)

\* the second request in a row whose send failed has returned
C1_Witness ==
    /\ HandleReturnedRoute
    /\ nReq = 2
    /\ Len(klog) = 3
    /\ klog[2].op = "sendmsg" /\ ~klog[2].ok
    /\ klog[3].op = "close"
    /\ toWorker = <<>>

\* C2: a request whose command is not PS_ROUTE is answered with -1 and
\* errno ENOTSUP, and while and after it is served no routing socket is
\* opened and nothing is sent to or received from the kernel.
C2_Unsupported ==
    rpsm.ps_cmd \notin {PS_ROUTE, "none"} =>
        /\ rpc \in {"os", "reply", "idle"}
        /\ klog = <<>>
        /\ openSocks = 0
        /\ rs = NoSock
        /\ rpc \in {"reply", "idle"} => rretval = -1 /\ rerrno = ENOTSUP

\* an unsupported request has returned after a route request that failed
\* with another errno
C2_Witness ==
    /\ rpc = "reply"
    /\ rpsm.ps_cmd = "PS_SCRIPT"
    /\ rretval = -1
    /\ nReq = 2
    /\ werrno = 1            \* EPERM

-----------------------------------------------------------------------------
(* Properties of the filter program *)

UnconditionalNrs ==
    { NR_accept, NR_brk, NR_clock_gettime, NR_close, NR_exit_group, NR_fcntl,
      NR_fstat, NR_gettimeofday, NR_getpid, NR_mmap, NR_munmap, NR_ppoll,
      NR_read, NR_readv, NR_recvfrom, NR_recvmsg, NR_rt_sigreturn, NR_sendmsg,
      NR_sendto, NR_shutdown, NR_wait4, NR_write, NR_writev, NR_uname }
ConstrainedValues ==
    { SIOCGIFFLAGS, SIOCGIFHWADDR, SIOCGIFINDEX, SIOCGIFMTU, SIOCGIFVLAN }

Evaluated == verdict # NoVerdict
NativeArch == sd.arch = SECCOMP_AUDIT_ARCH
IsIoctl == sd.nr = U32(NR_ioctl)
ShouldAllow ==
    /\ NativeArch
    /\ \/ \E n \in UnconditionalNrs : sd.nr = U32(n)
       \/ IsIoctl /\ \E v \in ConstrainedValues : sd.args[2] = U64(v)

\* C3: the verdict on a trapped syscall is ALLOW exactly when the arch is
\* the build's and the number is an unconditional entry or is ioctl with the
\* 64-bit args[1] equal to a required value; otherwise it is
\* SECCOMP_RET_KILL and the process is killed.
C3_Verdict ==
    Evaluated =>
        /\ verdict = (IF ShouldAllow THEN SECCOMP_RET_ALLOW
                      ELSE SECCOMP_RET_KILL)
        /\ (wpc = "dead") <=> ~ShouldAllow

\* the last entry of the table has allowed uname
C3_Witness ==
    /\ Evaluated
    /\ sd.nr = U32(NR_uname)
    /\ verdict = SECCOMP_RET_ALLOW
    /\ sd.args[2] = <<W(0, 1), U32(SIOCGIFVLAN)>>

Prog == attached[1].filter
Last(t) == t[Len(t)]

\* C4: the arch check is evaluated first and the default deny is the last
\* instruction: a syscall of a foreign arch is killed after the three
\* instructions of the arch check whatever its number and arguments, no
\* instruction of the allow list runs unless the arch comparison matched,
\* and a kill of a native syscall is the last instruction of the program.
C4_ArchFirstDenyLast ==
    /\ trace # <<>> => trace[1] = 1
    /\ \A i \in 1..Len(trace) :
          trace[i] > Len(seccomp_arch_check) =>
              NativeArch /\ i > 2 /\ trace[2] = 2
    /\ (Evaluated /\ ~NativeArch) =>
          verdict = SECCOMP_FILTER_FAIL /\ trace = <<1, 2, 3>>
    /\ (Evaluated /\ NativeArch /\ verdict = SECCOMP_FILTER_FAIL) =>
          Last(trace) = Len(Prog)
    /\ Prog[Len(Prog)] = BPF_RET(SECCOMP_FILTER_FAIL)

\* read, on the allow list, was trapped with the i386 arch and killed
C4_Witness ==
    /\ Evaluated
    /\ sd.arch = AUDIT_ARCH_I386
    /\ sd.nr = U32(NR_read)
    /\ verdict = SECCOMP_RET_KILL

\* first instructions of the argument-constrained entries
ConstrainedStarts ==
    {i \in 1..Len(Prog) : /\ Prog[i].code = "JEQ"
                           /\ Prog[i].k = U32(NR_ioctl)
                           /\ Prog[i].jf = 6}
Visited == {trace[i] : i \in 1..Len(trace)}

\* C5: a native ioctl whose args[1] equals a required value in both halves
\* is allowed by the entry of that value, after falling through the
\* entries before it; with any other args[1] it falls through all five
\* constrained entries and the rest of the table to the default deny.
C5_ConstrainedFallThrough ==
    (Evaluated /\ NativeArch /\ IsIoctl) =>
        IF \E v \in ConstrainedValues : sd.args[2] = U64(v)
        THEN /\ verdict = SECCOMP_RET_ALLOW
             /\ Prog[Last(trace) - 3].code = "JEQ"
             /\ Prog[Last(trace) - 3].k = sd.args[2][2]
             /\ Prog[Last(trace) - 1].code = "JEQ"
             /\ Prog[Last(trace) - 1].k = sd.args[2][1]
             /\ \A i \in ConstrainedStarts : i < Last(trace) => i \in Visited
        ELSE /\ verdict = SECCOMP_RET_KILL
             /\ Cardinality(ConstrainedStarts) = 5
             /\ ConstrainedStarts \subseteq Visited
             /\ Last(trace) = Len(Prog)

\* ioctl SIOCGIFVLAN was allowed by the fifth constrained entry
C5_Witness ==
    /\ Evaluated
    /\ NativeArch /\ IsIoctl
    /\ sd.args[2] = U64(SIOCGIFVLAN)
    /\ verdict = SECCOMP_RET_ALLOW
    /\ ConstrainedStarts \subseteq Visited

-----------------------------------------------------------------------------
(* Properties of the sandbox installation *)

\* the last call was ps_seccomp_enter and it was not killed on its prctl
EnterReturned ==
    /\ wcall.kind = "enter"
    /\ ~(wpc = "dead" /\ sd.nr = U32(NR_prctl))
BothStepsOk ==
    Len(prctlLog) = 2 /\ prctlLog[1].res = 0 /\ prctlLog[2].res = 0

\* C6: ps_seccomp_enter returns 0 exactly when both prctl calls succeeded;
\* otherwise it returns -1 with errno ENOSYS when the failing call set
\* EINVAL, and with the failing call's errno unchanged for any other code.
C6_EnterResult ==
    EnterReturned =>
        /\ wret = 0 <=> BothStepsOk
        /\ wret # 0 =>
              /\ wret = -1
              /\ LET e == Last(prctlLog).res IN
                 /\ e # 0
                 /\ e = EINVAL => werrno = ENOSYS
                 /\ e # EINVAL => werrno = e

\* installing the filter failed with EINVAL, reported as ENOSYS
C6_Witness ==
    /\ EnterReturned
    /\ Len(prctlLog) = 2
    /\ prctlLog[2].res = EINVAL
    /\ wret = -1
    /\ werrno = ENOSYS

C7_State ==
    /\ attached # <<>> => no_new_privs
    /\ \A i \in 1..Len(prctlLog) :
          prctlLog[i].option = "PR_SET_SECCOMP" =>
              /\ i = 2
              /\ prctlLog[1] = [option |-> "PR_SET_NO_NEW_PRIVS", res |-> 0]
    /\ prctlLog # <<>> => prctlLog[1].option = "PR_SET_NO_NEW_PRIVS"
C7_Step ==
    (nInstall' # nInstall /\ wpc' = "run" /\ wret' = -1) =>
        attached' = attached

\* C7: ps_seccomp_enter calls prctl(PR_SET_NO_NEW_PRIVS) first and
\* prctl(PR_SET_SECCOMP) only after that call succeeded, so a filter is
\* attached only to a task with no_new_privs set, and a call that returns
\* -1 leaves the attached filters as they were.
C7_Order == [](C7_State) /\ [][C7_Step]_vars

\* the first step failed and the filter step was skipped
C7_Witness ==
    /\ EnterReturned
    /\ Len(prctlLog) = 1
    /\ prctlLog[1].res = 13     \* EACCES
    /\ wret = -1
    /\ attached = <<>>
    /\ ~no_new_privs

\* C8: once a filter is attached, every step leaves the attached filters
\* as they are, and a further ps_seccomp_enter ends with the worker killed
\* on its prctl call.
C8_FilterStays ==
    [][attached # <<>> =>
          /\ attached' = attached
          /\ nInstall' # nInstall =>
                /\ wpc' = "dead"
                /\ sd'.nr = U32(NR_prctl)
                /\ sd'.arch = SECCOMP_AUDIT_ARCH
                /\ SubSeq(sd'.args, 1, 5) =
                      <<U64(PR_SET_NO_NEW_PRIVS), U64(1), Zero64, Zero64,
                        Zero64>>
                /\ verdict' = SECCOMP_RET_KILL]_vars

\* the second ps_seccomp_enter was killed on prctl
C8_Witness ==
    /\ wpc = "dead"
    /\ nInstall = 2
    /\ sd.nr = U32(NR_prctl)
    /\ sd.args[1] = U64(PR_SET_NO_NEW_PRIVS)
    /\ sd.args[2] = U64(1)
    /\ sd.instruction_pointer = <<W(0, 32522), W(7623, 46157)>>
    /\ sd.args[6] = <<W(0, 32522), W(7606, 63296)>>
    /\ verdict = SECCOMP_RET_KILL
    /\ attached = << ps_seccomp_prog >>

\* C9: a sandboxed worker that calls socket is killed and never gets a
\* routing socket of its own, and every message sent to the kernel's
\* routing facility is sent by the relay serving a PS_ROUTE request.
C9_NoWorkerSocket ==
    /\ workerSocks = 0
    /\ (Evaluated /\ sd.nr = U32(NR_socket)) =>
          verdict = SECCOMP_RET_KILL /\ wpc = "dead"
    /\ \A i \in 1..Len(klog) :
          klog[i].op = "sendmsg" => rpsm.ps_cmd = PS_ROUTE

\* the worker was killed on socket after a route request was served
C9_Witness ==
    /\ wpc = "dead"
    /\ sd.nr = U32(NR_socket)
    /\ verdict = SECCOMP_RET_KILL
    /\ attached # <<>>
    /\ Len(klog) = 4

-----------------------------------------------------------------------------
(* End to end *)

RouteSucceeded == wpc = "run" /\ wcall.kind = "route" /\ wret # -1
RelayDidRoundTrip ==
    klog = << KOp("socket", <<wcall.protocol>>, TRUE),
              KOp("sendmsg", <<wcall.protocol>> \o wcall.msg, TRUE),
              KOp("recvmsg", <<wcall.protocol>> \o rbuf, TRUE),
              KOp("close", <<wcall.protocol>>, TRUE) >>

\* C10 as stated: after a successful ps_root_sendnetlink(X, M) the relay
\* has sent M on a protocol-X socket and received R, and the worker holds
\* R and its byte count.  Refuted: the worker holds no reply bytes.
C10_ReplyReturned ==
    RouteSucceeded =>
        /\ RelayDidRoundTrip
        /\ wret = Len(rbuf)
        /\ wdata = rbuf

\* C10 amended: after a successful ps_root_sendnetlink(X, M) the relay has
\* sent M on a protocol-X socket, received R into its own buffer and closed
\* the socket, and the worker's return value is the relay's result, the
\* byte count of R; the bytes of R are not handed to the worker.
C10_RoundTrip ==
    RouteSucceeded =>
        /\ RelayDidRoundTrip
        /\ wret = Len(rbuf)
        /\ wdata = <<>>
        /\ rpsm.ps_cmd = PS_ROUTE

\* selector NETLINK_GENERIC, a two-byte message and a two-byte reply made
\* the round trip in the sandboxed worker
C10_Witness ==
    /\ RouteSucceeded
    /\ wcall.protocol = 16      \* NETLINK_GENERIC
    /\ wcall.msg = <<8, 9>>
    /\ rbuf = <<2, 3>>
    /\ wret = 2
    /\ attached # <<>>

-----------------------------------------------------------------------------
(* Error codes of the relay *)

\* C11: when if_linksocket, sendmsg or if_getnetlink failed with errno e in
\* a 'route' request, handle returns -1 with errno e; after a failed send or
\* receive the socket has been closed by then, and the close has left e in
\* place.
C11_ErrnoPreserved ==
    /\ (HandleReturnedRoute /\ kerr # 0) =>
          /\ rretval = -1
          /\ rerrno = kerr
          /\ ~Last(klog).ok \/ Last(klog).op = "close"
          /\ klog[1].ok =>
                /\ Last(klog).op = "close"
                /\ ~klog[Len(klog) - 1].ok
                /\ openSocks = 0
    /\ (rpc = "out" /\ kerr # 0) => rretval = -1 /\ rerrno = kerr
    /\ (HandleReturnedRoute /\ kerr = 0) => rretval # -1

\* a receive failed with ENOBUFS after the previous request had failed with
\* EPERM; the socket is closed and handle has returned
C11_Witness ==
    /\ HandleReturnedRoute
    /\ kerr = 105
    /\ rerrno = 105
    /\ Len(klog) = 4
    /\ klog[3].op = "recvmsg" /\ ~klog[3].ok
    /\ klog[4].op = "close"
    /\ werrno = 1

UnsupportedCall == wcall.kind \in Commands \ {PS_ROUTE}

\* the response to an unsupported request, on its way to the worker
C12_Response ==
    (UnsupportedCall /\ toWorker # <<>>) =>
        /\ Head(toWorker).psr_result = -1
        /\ Head(toWorker).psr_errno = ENOTSUP
        /\ Head(toWorker).psr_data = <<>>

\* the worker takes the response to an unsupported request
C12_Surface ==
    (UnsupportedCall /\ wpc = "wait" /\ wpc' = "run") =>
        /\ wret' = -1
        /\ werrno' = ENOTSUP
        /\ rpsm.ps_cmd = wcall.kind
        /\ klog = <<>>

\* C12: a request with a command other than PS_ROUTE is answered by the
\* relay with -1 and ENOTSUP, and the worker's call returns -1 with errno
\* ENOTSUP, whatever errno earlier calls of the worker or the relay left.
C12_UnsupportedEndToEnd == [](C12_Response) /\ [][C12_Surface]_vars

\* the second request of the worker, a PS_IOCTL, has returned -1 with
\* ENOTSUP and no kernel operation was made for it
C12_Witness ==
    /\ wpc = "run"
    /\ wcall.kind = "PS_IOCTL"
    /\ wret = -1
    /\ werrno = ENOTSUP
    /\ rerrno = ENOTSUP
    /\ kerr = 0
    /\ nReq = 2
    /\ toWorker = <<>>

-----------------------------------------------------------------------------
(* One request at a time *)

\* requests of the worker that were sent and whose response was not yet read
InFlight == Len(toRelay) + (IF rpc # "idle" THEN 1 ELSE 0) + Len(toWorker)

\* the envelope psm is the one the worker's current call has sent
IssuedByCall(psm) ==
    /\ psm.msg = wcall.msg
    /\ IF wcall.kind = "route"
       THEN psm.ps_cmd = PS_ROUTE /\ psm.ps_flags = ULongOfInt(wcall.protocol)
       ELSE psm.ps_cmd = wcall.kind

\* C13: at most one request of the worker is in flight, and the worker is
\* blocked exactly while it is; the relay is serving a request only when no
\* other request is queued and no response is unread; at most one routing
\* socket of the relay is open; a response is the answer to the request of
\* the call that is blocked waiting for it.
C13_OneInFlight ==
    /\ InFlight <= 1
    /\ (wpc = "wait") <=> (InFlight = 1)
    /\ rpc # "idle" => toRelay = <<>> /\ toWorker = <<>> /\ IssuedByCall(rpsm)
    /\ toRelay # <<>> => IssuedByCall(Head(toRelay))
    /\ toWorker # <<>> =>
          /\ IssuedByCall(rpsm)
          /\ Head(toWorker).psr_result = rretval
          /\ Head(toWorker).psr_errno = rerrno
    /\ openSocks <= 1
    /\ openSocks = 1 => rpc \in {"sendmsg", "getnetlink", "out"}

\* the relay holds its socket open for the worker's second request while
\* the worker is blocked in ps_root_sendnetlink
C13_Witness ==
    /\ wpc = "wait"
    /\ wcall.kind = "route"
    /\ nReq = 2
    /\ rpc = "getnetlink"
    /\ openSocks = 1
    /\ toRelay = <<>>
    /\ toWorker = <<>>

-----------------------------------------------------------------------------
(* Order of the kernel operations of one handle call *)

\* the operations of the current call, by name
OpSeq == [i \in 1..Len(klog) |-> klog[i].op]

\* ps_root_os has returned, or has not been called since
HandleDone == rpc \in {"reply", "idle"} /\ rpsm.ps_cmd = PS_ROUTE

\* C14 as stated: a handle call for 'route' makes open, at most one send,
\* at most one receive, then close.  Refuted: after a failed open the call
\* returns without a close.
C14_EndsWithClose ==
    HandleDone =>
        OpSeq \in { <<"socket", "close">>,
                    <<"socket", "sendmsg", "close">>,
                    <<"socket", "sendmsg", "recvmsg", "close">> }

\* C14 amended: within one handle call for 'route' the kernel operations
\* are one open, then one send only if the open succeeded, then one receive
\* only if the send succeeded, then one close exactly when the open
\* succeeded; nothing follows a failed operation but that close, and no
\* operation is made twice.
C14_FixedOrder ==
    /\ Len(klog) <= 4
    /\ \A i \in 1..Len(klog) :
          /\ klog[i].op = "socket" <=> i = 1
          /\ klog[i].op = "sendmsg" => i = 2 /\ klog[1].ok
          /\ klog[i].op = "recvmsg" =>
                i = 3 /\ klog[2].op = "sendmsg" /\ klog[2].ok
          /\ klog[i].op = "close" => i = Len(klog) /\ i >= 3 /\ klog[1].ok
          /\ ~klog[i].ok =>
                \/ i = Len(klog)
                \/ i + 1 = Len(klog) /\ klog[i + 1].op = "close"
          /\ klog[i].arg[1] = rprotocol
    /\ HandleDone =>
          OpSeq \in { <<"socket">>,
                      <<"socket", "sendmsg", "close">>,
                      <<"socket", "sendmsg", "recvmsg", "close">> }
    /\ (HandleDone /\ OpSeq = <<"socket">>) => ~klog[1].ok
    /\ (rpsm.ps_cmd = PS_ROUTE /\ rpc = "sendmsg") => OpSeq = <<"socket">>
    /\ (rpsm.ps_cmd = PS_ROUTE /\ rpc = "getnetlink") =>
          OpSeq = <<"socket", "sendmsg">>
    /\ (rpsm.ps_cmd = PS_ROUTE /\ rpc = "out") =>
          OpSeq \in { <<"socket", "sendmsg">>,
                      <<"socket", "sendmsg", "recvmsg">> }

\* the send failed: open, send, close and no receive
C14_Witness ==
    /\ HandleDone
    /\ rpc = "reply"
    /\ OpSeq = <<"socket", "sendmsg", "close">>
    /\ ~klog[2].ok
    /\ rretval = -1
    /\ rprotocol = -1

-----------------------------------------------------------------------------
(* The selector in the request envelope *)

\* int selectors: the netlink protocols, the extremes of int and values
\* around the 16-bit and the sign boundaries
Selectors ==
    {0, 16, -1, 2147483647, -2147483647 - 1, 65536, -65536, 32768}

\* route requests of an unsandboxed worker, selectors drawn from Selectors
InitSelector == Init

NextSelector ==
    \/ \E p \in Selectors, e \in ChannelOutcomes :
          ps_root_sendnetlink(p, <<7>>, e)
    \/ ps_root_sendnetlink_read
    \/ ps_root_recvmsg
    \/ ps_root_os
    \/ \E e \in {0, 1} : dosendnetlink_linksocket(e)
    \/ \E e \in {0, 1} : dosendnetlink_sendmsg(e)
    \/ \E e \in {0, 1} : dosendnetlink_getnetlink(<<1>>, e)
    \/ dosendnetlink_out
    \/ ps_root_writeerror

SpecSelector == InitSelector /\ [][NextSelector]_vars

\* the relay is inside ps_root_dosendnetlink, or has answered and the
\* worker has not read the answer yet
SelectorInUse == rpc \notin {"idle", "os"} \/ toWorker # <<>>

\* C15: the flags of the envelope are (unsigned long)X for the selector X of
\* the worker's call, the relay's (int)flags is X again, and the routing
\* socket is opened with X, for every int X including INT_MIN and INT_MAX.
C15_SelectorRoundTrip ==
    /\ \A x \in Selectors : IntOfULong(ULongOfInt(x)) = x
    /\ toRelay # <<>> =>
          /\ Head(toRelay).ps_flags = ULongOfInt(wcall.protocol)
          /\ IntOfULong(Head(toRelay).ps_flags) = wcall.protocol
    /\ rpc # "idle" => rpsm.ps_flags = ULongOfInt(wcall.protocol)
    /\ SelectorInUse => rprotocol = wcall.protocol
    /\ (SelectorInUse /\ rpc # "linksocket") =>
          /\ klog # <<>>
          /\ klog[1].op = "socket"
          /\ klog[1].arg = <<wcall.protocol>>

\* the relay has opened the routing socket with INT_MIN, carried in the
\* flags as 0xFFFFFFFF80000000
C15_Witness ==
    /\ rpc = "sendmsg"
    /\ wcall.protocol = -2147483647 - 1
    /\ rpsm.ps_flags = <<W(65535, 65535), W(32768, 0)>>
    /\ rprotocol = -2147483647 - 1
    /\ klog = <<KOp("socket", <<-2147483647 - 1>>, TRUE)>>

-----------------------------------------------------------------------------
(* A failed send of the request *)

\* a step of ps_root_sendnetlink in which ps_sendmsg returned -1
SendFailed ==
    /\ wpc = "run"
    /\ nReq' = nReq + 1
    /\ wcall'.kind = "route"
    /\ wpc' # "dead"
    /\ toRelay' = toRelay

\* the worker blocks for a response only with a request outstanding, and
\* no response is left unread when it runs
C16_State ==
    /\ wpc = "wait" => InFlight = 1
    /\ wpc # "wait" => toWorker = <<>>

C16_Step ==
    /\ SendFailed =>
          /\ wpc' = "run"
          /\ wret' = -1
          /\ werrno' \in ChannelOutcomes \ {0}
          /\ toWorker' = toWorker
          /\ InFlight' = 0
    /\ (wpc = "run" /\ wpc' = "wait") =>
          /\ toRelay' = <<[ps_cmd |-> IF wcall'.kind = "route"
                                      THEN PS_ROUTE ELSE wcall'.kind,
                           ps_flags |-> ULongOfInt(wcall'.protocol),
                           msg |-> wcall'.msg]>>
          /\ wret' = wret
    /\ (wpc = "wait" /\ wpc' = "run") =>
          /\ toWorker # <<>>
          /\ toWorker' = <<>>
          /\ IssuedByCall(rpsm)

\* C16: when ps_sendmsg fails, ps_root_sendnetlink returns -1 with the
\* errno of the send in the same step, without waiting and without taking
\* anything off the response channel; the worker waits only after its
\* request went onto the channel, and what it then reads is the response to
\* that request.
C16_NoReadAfterFailedSend == [](C16_State) /\ [][C16_Step]_vars

\* the second route request could not be sent (EPIPE); the call has
\* returned -1 and the relay was not involved again
C16_Witness ==
    /\ wpc = "run"
    /\ wcall.kind = "route"
    /\ nReq = 2
    /\ wret = -1
    /\ werrno = 32
    /\ rpc = "idle"
    /\ rretval = 1
    /\ InFlight = 0

-----------------------------------------------------------------------------
(* Termination of the filter *)

\* the kernel runs the filter to its return
SpecFilterFair == SpecFilter /\ WF_vars(NextFilter)

\* every jump lands on a later instruction of the program, no load is the
\* last instruction, and every return yields ALLOW or KILL
WellFormed(prog) ==
    \A i \in 1..Len(prog) :
        /\ prog[i].code = "JEQ" =>
              /\ prog[i].jt >= 0 /\ i + 1 + prog[i].jt \in (i + 1)..Len(prog)
              /\ prog[i].jf >= 0 /\ i + 1 + prog[i].jf \in (i + 1)..Len(prog)
        /\ prog[i].code = "LD" => i < Len(prog)
        /\ prog[i].code = "RET" =>
              prog[i].k \in {SECCOMP_RET_ALLOW, SECCOMP_RET_KILL}

\* the instructions executed so far: strictly forward, no more of them than
\* the program has, and inside the program until the one return
C17_Bounded ==
    /\ WellFormed(Prog)
    /\ Len(Prog) = attached[1].len
    /\ Len(trace) <= Len(Prog)
    /\ \A i \in 1..Len(trace) : trace[i] \in 1..Len(Prog)
    /\ \A i \in 1..(Len(trace) - 1) :
          trace[i] < trace[i + 1] /\ Prog[trace[i]].code # "RET"
    /\ ~Evaluated => Running /\ (trace # <<>> => Last(trace) < bpf_pc)
    /\ Evaluated =>
          /\ verdict \in {SECCOMP_RET_ALLOW, SECCOMP_RET_KILL}
          /\ Prog[Last(trace)].code = "RET"
          /\ Prog[Last(trace)].k = verdict
          /\ ~Running

\* C17: the evaluation of the filter on a trapped syscall ends with one
\* verdict, ALLOW or KILL: jumps go forward inside the program, execution
\* never leaves the program before a return, at most as many instructions
\* run as the program has, and a return is eventually executed.
C17_Terminates == [](C17_Bounded) /\ <>Evaluated

\* the longest evaluation: a native ioctl with an argument that no entry
\* accepts runs through every entry to the default deny
C17_Witness ==
    /\ Evaluated
    /\ NativeArch
    /\ IsIoctl
    /\ sd.args[2] = <<W(0, 1), U32(SIOCGIFVLAN)>>
    /\ verdict = SECCOMP_RET_KILL
    /\ Len(trace) > 40
    /\ Last(trace) = Len(Prog)

-----------------------------------------------------------------------------
(* The accumulator at the comparisons of the syscall number *)

\* instruction i loads a half of a syscall argument
ArgLoad(i) == Prog[i].code = "LD" /\ Prog[i].k >= OffArgs(0)
\* instruction i compares an argument half: the accumulator was loaded
\* just before
ArgCompare(i) == i > 1 /\ Prog[i].code = "JEQ" /\ ArgLoad(i - 1)
\* instruction i compares against a syscall number: the other comparisons
\* after the arch check
NrCompare(i) ==
    /\ i \in (Len(seccomp_arch_check) + 1)..Len(Prog)
    /\ Prog[i].code = "JEQ"
    /\ ~ArgCompare(i)
\* instruction i is the first of an argument-constrained entry
ConstrainedStart(i) ==
    Prog[i].code = "JEQ" /\ Prog[i].k = U32(NR_ioctl) /\ Prog[i].jf = 6

\* the instructions executed so far and the one to execute next
Path == IF Running THEN Append(trace, bpf_pc) ELSE trace

\* C18: at every comparison against a syscall number the accumulator holds
\* the number of the trapped syscall; a failed comparison of an argument
\* half continues at the reload of the number, followed by the next entry's
\* comparison; a constrained entry whose number comparison failed continues
\* seven instructions on, at the next entry.
C18_AccumulatorIsNr ==
    /\ (Running /\ NrCompare(bpf_pc)) => bpf_A = sd.nr
    /\ \A j \in 1..(Len(Path) - 1) :
          /\ (ArgCompare(Path[j]) /\ Path[j + 1] # Path[j] + 1) =>
                /\ Prog[Path[j + 1]] = BPF_LD_ABS(OffNr)
                /\ NrCompare(Path[j + 1] + 1)
                /\ LoadWord(sd, Prog[Path[j] - 1].k) # Prog[Path[j]].k
          /\ (ConstrainedStart(Path[j]) /\ ~IsIoctl) =>
                /\ Path[j + 1] = Path[j] + 7
                /\ NrCompare(Path[j + 1])
          /\ (ConstrainedStart(Path[j]) /\ IsIoctl) =>
                Path[j + 1] = Path[j] + 1

\* a native ioctl failed the high-half comparison of the first constrained
\* entry; the number was reloaded and the next entry is about to compare it
C18_Witness ==
    /\ Running
    /\ ConstrainedStart(bpf_pc)
    /\ Len(trace) > 3
    /\ ArgCompare(trace[Len(trace) - 1])
    /\ trace[Len(trace) - 1] = Last(trace) - 2
    /\ Prog[Last(trace)] = BPF_LD_ABS(OffNr)
    /\ sd.args[2] = <<W(0, 1), U32(SIOCGIFFLAGS)>>
    /\ bpf_A = U32(NR_ioctl)

-----------------------------------------------------------------------------
(* What the verdict depends on *)

\* values tried for the third syscall argument, args[2]
TriedArg2 == { Zero64, U64(SIOCGIFFLAGS) }

\* the trapped syscall with another instruction pointer and other arguments
Variant(ip, a0, a1, a2) ==
    [sd EXCEPT !.instruction_pointer = ip,
               !.args[1] = a0, !.args[2] = a1, !.args[3] = a2]

\* the verdict of the attached program on d
VerdictOn(d) == BpfRun(Prog, 1, U32(0), d)

\* C19: a trapped syscall that agrees with this one on arch and nr, and on
\* args[1] when nr is ioctl, gets the same verdict whatever its instruction
\* pointer and its other arguments are; when nr is not ioctl the verdict is
\* the same for every args[1] as well.
C19_VerdictDependsOn ==
    Evaluated =>
        /\ \A ip \in TriedIp, a0 \in TriedArg0, a2 \in TriedArg2 :
              VerdictOn(Variant(ip, a0, sd.args[2], a2)) = verdict
        /\ ~IsIoctl =>
              \A ip \in TriedIp, a0 \in TriedArg0, a1 \in TriedArg1,
                 a2 \in TriedArg2 :
                    VerdictOn(Variant(ip, a0, a1, a2)) = verdict
        /\ (IsIoctl /\ NativeArch) =>
              /\ VerdictOn(Variant(sd.instruction_pointer, sd.args[1],
                                   U64(SIOCGIFMTU), sd.args[3]))
                     = SECCOMP_RET_ALLOW
              /\ VerdictOn(Variant(sd.instruction_pointer, sd.args[1],
                                   U64(0), sd.args[3]))
                     = SECCOMP_RET_KILL

\* a native ioctl with a required code in args[0] only and a nonzero
\* instruction pointer was killed
C19_Witness ==
    /\ Evaluated
    /\ NativeArch
    /\ IsIoctl
    /\ sd.args[1] = U64(SIOCGIFFLAGS)
    /\ sd.args[2] = U64(35092)
    /\ sd.instruction_pointer = <<W(0, 21845), W(21845, 8192)>>
    /\ verdict = SECCOMP_RET_KILL

====
